---- MODULE Spec2Model ----
(***************************************************************************)
(* LeVec<T> (src/src/lib.rs): a growable array over raw memory.            *)
(*                                                                         *)
(* The container is the triple (ptr, len, cap).  The host allocator is     *)
(* modelled as a heap of numbered blocks: every successful alloc, and      *)
(* every realloc that moves the block, hands out a block number that was   *)
(* never used before, so "obtained" and "released" can be counted per      *)
(* block.  Element values are numbered too: every push that stores its     *)
(* value stores one that was never stored before, so that each value's     *)
(* fate (handed to the caller, destructed) can be counted.                 *)
(*                                                                         *)
(* usize is modelled with the width of a 16-bit target, which keeps the    *)
(* overflow checks of push within reach of small element counts.           *)
(***************************************************************************)
EXTENDS Integers, Sequences, FiniteSets, TLC

VARIABLES
    T,          \* the element type: [size |-> size_of::<T>(), align |-> align_of::<T>()]
    ptr,        \* self.ptr: 0 is NonNull::dangling(), b > 0 is heap block b
    len,        \* self.len
    cap,        \* self.cap
    heap,       \* the allocator's blocks
    nextBlock,  \* the number the next block handed out will get
    nextVal,    \* the value the next push will store
    phase,      \* "live" | "dropped"
    result,     \* what the last operation returned (or the panic it raised)
    trace,      \* the allocator calls and element destructions of the last operation
    handed,     \* handed[v]: how often value v was returned to a caller by pop / next
    destructed, \* destructed[v]: how often drop_in_place ran on value v
    pushed,     \* the values push has stored, in order (whole lifetime)
    ref,        \* the reference stack: append on push, remove last on pop / next
    story,      \* "pushing" | "popping" | "other": the shape of the history so far
    popped,     \* while story = "popping": the values the pops returned, in order
    nPops,      \* while story = "popping": the number of pop calls (capped)
    capPushed   \* the capacity when the first pop of the story was called

vars == <<T, ptr, len, cap, heap, nextBlock, nextVal, phase, result, trace,
          handed, destructed, pushed, ref, story, popped, nPops, capPushed>>

----------------------------------------------------------------------------
(* Bounds of the model *)

\* the number of values a run stores (each push stores a fresh one)
MaxVals == 10

\* the number of values a run removes by pop and next
MaxRemovals == 5

\* the number of blocks the allocator can hand out before it is exhausted
MaxBlocks == 4

----------------------------------------------------------------------------
(* Machine integers *)

\* usize::MAX on the modelled (16-bit) target
USIZE_MAX == 65535

\* const ISIZE_MAX_SIZE: usize = isize::MAX as usize
ISIZE_MAX_SIZE == 32767

\* the fixed initial capacity: Layout::array::<T>(4), self.cap = 4
INITIAL_CAP == 4

\* the element types a run is instantiated with
ElemTypes ==
    { [size |-> 0,    align |-> 1],
      [size |-> 2,    align |-> 2],
      [size |-> 4096, align |-> 1] }

Values == 1 .. MaxVals
\* what a slot can hold: a value, or 0 for bytes that were never written
Bits == 0 .. MaxVals
Blocks == 1 .. MaxBlocks

\* Option<usize> of checked_mul: -1 stands for None
NoneU == -1

\* a multiplication that wraps around instead of reporting the overflow
checked_mul_wrapping(a, b) == (a * b) % (USIZE_MAX + 1)

checked_mul(a, b) == IF a * b > USIZE_MAX THEN NoneU ELSE a * b

----------------------------------------------------------------------------
(* Results and events *)

Unit         == [kind |-> "unit",  val |-> 0, msg |-> ""]
None         == [kind |-> "none",  val |-> 0, msg |-> ""]
Some(v)      == [kind |-> "some",  val |-> v, msg |-> ""]
Panic(m)     == [kind |-> "panic", val |-> 0, msg |-> m]

Res(op, arg, r) == [op |-> op, arg |-> arg, kind |-> r.kind, val |-> r.val, msg |-> r.msg]

\* an allocator call with the pointer it returned (0: null), or a drop_in_place
EvAlloc(sz, r) ==
    [ev |-> "alloc", ptr |-> 0, layout |-> sz, new |-> sz, ret |-> r, pos |-> 0, val |-> 0]
EvRealloc(p, lay, sz, r) ==
    [ev |-> "realloc", ptr |-> p, layout |-> lay, new |-> sz, ret |-> r, pos |-> 0, val |-> 0]
EvDealloc(p, lay) ==
    [ev |-> "dealloc", ptr |-> p, layout |-> lay, new |-> 0, ret |-> 0, pos |-> 0, val |-> 0]
EvDropInPlace(p, i, v) ==
    [ev |-> "drop_in_place", ptr |-> p, layout |-> 0, new |-> 0, ret |-> 0, pos |-> i, val |-> v]
\* a read of position i of the block at p
EvRead(p, i, v) ==
    [ev |-> "read", ptr |-> p, layout |-> 0, new |-> 0, ret |-> 0, pos |-> i, val |-> v]

AllocatorEvents == {"alloc", "realloc", "dealloc"}

----------------------------------------------------------------------------
(* The heap *)

\* a block: the byte size of the layout it was obtained or last resized
\* with (0: never handed out), how often it was released, its element slots
\* (0: never written)
NoBlock == [size |-> 0, rel |-> 0, slots |-> <<>>]

Uninit(n) == [i \in 1 .. n |-> 0]

\* ptr.as_ptr().add(i).read() / &*ptr.as_ptr().add(i): slot i (0-based) of block p
\* (a read outside every block finds garbage, 0)
Slot(h, p, i) ==
    IF p \in Blocks /\ (i + 1) \in DOMAIN h[p].slots THEN h[p].slots[i + 1] ELSE 0

ReadAt(p, i) == Slot(heap, p, i)

\* a write one position too far
WriteAt_next(b, i, v) ==
    IF (i + 2) \in DOMAIN b.slots THEN [b EXCEPT !.slots[i + 2] = v] ELSE b

\* ptr.as_ptr().add(i).write(v) on block record b
WriteAt(b, i, v) ==
    IF (i + 1) \in DOMAIN b.slots THEN [b EXCEPT !.slots[i + 1] = v] ELSE b

\* the blocks handed out and not released
Outstanding == {b \in Blocks : heap[b].size > 0 /\ heap[b].rel = 0}

\* the container owns a block: its pointer is a block handed out and not released
OwnsBlock == ptr \in Outstanding

----------------------------------------------------------------------------
(* LeVec::new *)

Init ==
    /\ T \in ElemTypes
    /\ ptr = 0
    /\ len = 0
    /\ cap = 0
    /\ heap = [b \in Blocks |-> NoBlock]
    /\ nextBlock = 1
    /\ nextVal = 1
    /\ phase = "live"
    /\ result = Res("new", 0, Unit)
    /\ trace = <<>>
    /\ handed = [v \in Bits |-> 0]
    /\ destructed = [v \in Bits |-> 0]
    /\ pushed = <<>>
    /\ ref = <<>>
    /\ story = "pushing"
    /\ popped = <<>>
    /\ nPops = 0
    /\ capPushed = 0

----------------------------------------------------------------------------
(* History bookkeeping shared by the operations (not program state) *)

\* a push that stored its value
NoteStored(v) ==
    /\ pushed' = Append(pushed, v)
    /\ ref' = Append(ref, v)
    /\ story' = IF story = "pushing" THEN "pushing" ELSE "other"
    /\ popped' = <<>>
    /\ nPops' = 0
    /\ capPushed' = 0
    /\ nextVal' = nextVal + 1
    /\ UNCHANGED <<handed, destructed>>

\* an operation that neither stored nor removed a value
NoteNothing ==
    UNCHANGED <<handed, destructed, pushed, ref, story, popped, nPops, capPushed>>

\* the result r of pop (byPop) or of next on the container
NoteRemoved(r, byPop) ==
    /\ handed' = IF r.kind = "some" THEN [handed EXCEPT ![r.val] = @ + 1] ELSE handed
    /\ ref' = IF Len(ref) > 0 THEN SubSeq(ref, 1, Len(ref) - 1) ELSE ref
    /\ story' = IF byPop /\ story \in {"pushing", "popping"} THEN "popping" ELSE "other"
    /\ popped' = IF story' # "popping" THEN <<>>
                 ELSE IF r.kind = "some" THEN Append(popped, r.val) ELSE popped
    /\ nPops' = IF story' # "popping" THEN 0
                ELSE IF nPops <= Len(pushed) THEN nPops + 1 ELSE nPops
    /\ capPushed' = IF story' # "popping" THEN 0
                    ELSE IF story = "pushing" THEN cap ELSE capPushed
    /\ UNCHANGED <<destructed, pushed>>

----------------------------------------------------------------------------
(* LeVec::push *)

\* what the allocator answers: a null pointer, the same block, another block
AllocOutcomes == {"null", "same", "moved"}

\* push panics with message m: the container is as it was (the value is
\* dropped by the unwinding, outside the container)
PushPanics(v, m, events) ==
    /\ result' = Res("push", v, Panic(m))
    /\ trace' = events
    /\ UNCHANGED <<ptr, len, cap, heap, nextBlock, nextVal>>
    /\ NoteNothing

\* Layout::array::<T>(n) is Ok
LayoutArrayOk(n) == T.size * n <= ISIZE_MAX_SIZE - (T.align - 1)

\* std::alloc::alloc(layout) with the system allocator: a fresh block of
\* layout's size, or null
AllocBlock(sz, n) == [size |-> sz, rel |-> 0, slots |-> Uninit(n)]

\* the branch self.len == 0
PushFirst(v, out) ==
    LET new_size == checked_mul(T.size, INITIAL_CAP) IN
    IF new_size = NoneU \/ new_size > ISIZE_MAX_SIZE
    THEN PushPanics(v, "capacity overflow", <<>>)
    ELSE IF ~LayoutArrayOk(INITIAL_CAP)
    THEN PushPanics(v, "called Result::unwrap() on an Err value", <<>>)
    ELSE IF out = "null" \/ nextBlock > MaxBlocks
    THEN PushPanics(v, "allocation failed", <<EvAlloc(new_size, 0)>>)
    ELSE /\ heap' = [heap EXCEPT ![nextBlock] =
                        WriteAt(AllocBlock(new_size, INITIAL_CAP), 0, v)]
         /\ nextBlock' = nextBlock + 1
         /\ ptr' = nextBlock
         /\ len' = 1
         /\ cap' = INITIAL_CAP
         /\ result' = Res("push", v, Unit)
         /\ trace' = <<EvAlloc(new_size, nextBlock)>>
         /\ NoteStored(v)

\* the branch self.len < self.cap
PushRoom(v) ==
    LET offset == checked_mul(len, T.size) IN
    IF offset = NoneU \/ offset > ISIZE_MAX_SIZE
    THEN PushPanics(v, "capacity overflow", <<>>)
    ELSE /\ heap' = [heap EXCEPT ![ptr] = WriteAt(@, len, v)]
         /\ len' = len + 1
         /\ result' = Res("push", v, Unit)
         /\ trace' = <<>>
         /\ UNCHANGED <<ptr, cap, nextBlock>>
         /\ NoteStored(v)

\* a growth step that does not grow
new_cap_of_same(c) == checked_mul(c, 1)

\* a growth step that adds the initial capacity instead of doubling
new_cap_of_linear(c) == IF c + INITIAL_CAP > USIZE_MAX THEN NoneU ELSE c + INITIAL_CAP

\* self.cap.checked_mul(2)
new_cap_of(c) == checked_mul(c, 2)

\* ISIZE_MAX_SIZE + (align - 1), less its remainder modulo align
aligned_isize_max_size_rounded ==
    LET aligned_isize_max_size == ISIZE_MAX_SIZE + (T.align - 1) IN
    aligned_isize_max_size - (aligned_isize_max_size % T.align)

\* the layout handed to realloc as the block's current layout:
\* Layout::array::<T>(new_cap), whose size is new_size
ReallocLayout(new_cap) == T.size * new_cap

\* std::alloc::realloc(ptr, layout, new_size) with the system allocator
\* (libc realloc for align <= MIN_ALIGN: the layout argument is not used):
\* the block grows where it is, or a fresh block gets its contents and the
\* old one is released
ReallocHeap(out, new_size, n) ==
    LET grown == [size  |-> new_size, rel |-> 0,
                  slots |-> heap[ptr].slots \o Uninit(n - Len(heap[ptr].slots))] IN
    IF out = "same"
    THEN [heap EXCEPT ![ptr] = grown]
    ELSE [heap EXCEPT ![ptr] = [@ EXCEPT !.rel = @ + 1, !.slots = <<>>],
                      ![nextBlock] = grown]

\* a growth step that does not check the pointer realloc returned
GrowFailed_unchecked(v, call) ==
    /\ ptr' = 0
    /\ len' = len + 1
    /\ cap' = new_cap_of(cap)
    /\ result' = Res("push", v, Unit)
    /\ trace' = call
    /\ UNCHANGED <<heap, nextBlock>>
    /\ NoteStored(v)

\* ptr::NonNull::new(ptr).expect("allocation failed") on a null pointer
GrowFailed(v, call) == PushPanics(v, "allocation failed", call)

\* the branch self.len == self.cap
PushGrow(v, out) ==
    LET new_cap  == new_cap_of(cap)
        new_size == IF new_cap = NoneU THEN NoneU ELSE checked_mul(T.size, new_cap)
        p        == IF out = "same" THEN ptr ELSE nextBlock
        failed   == out = "null" \/ (out = "moved" /\ nextBlock > MaxBlocks)
        call     == <<EvRealloc(ptr, ReallocLayout(new_cap), new_size,
                                IF failed THEN 0 ELSE p)>>
    IN
    IF new_size = NoneU \/ new_size > ISIZE_MAX_SIZE
    THEN PushPanics(v, "capacity overflow", <<>>)
    ELSE IF ~LayoutArrayOk(new_cap)
    THEN PushPanics(v, "called Result::unwrap() on an Err value", <<>>)
    ELSE IF new_size > aligned_isize_max_size_rounded
    THEN PushPanics(v, "capacity overflow", <<>>)
    ELSE IF failed
    THEN GrowFailed(v, call)
    ELSE /\ heap' = [ReallocHeap(out, new_size, new_cap) EXCEPT ![p] = WriteAt(@, len, v)]
         /\ nextBlock' = IF out = "same" THEN nextBlock ELSE nextBlock + 1
         /\ ptr' = p
         /\ len' = len + 1
         /\ cap' = new_cap
         /\ result' = Res("push", v, Unit)
         /\ trace' = call
         /\ NoteStored(v)

\* a push without the assertion on size_of::<T>()
push_noAssert(v, out) ==
    IF len = 0 THEN PushFirst(v, out)
    ELSE IF len < cap THEN PushRoom(v)
    ELSE PushGrow(v, out)

push(v, out) ==
    IF ~(T.size > 0)
    THEN PushPanics(v, "size of T must be greater than 0", <<>>)
    ELSE IF len = 0 THEN PushFirst(v, out)
    ELSE IF len < cap THEN PushRoom(v)
    ELSE PushGrow(v, out)

Push ==
    /\ phase = "live"
    /\ nextVal <= MaxVals
    /\ \E out \in AllocOutcomes : push(nextVal, out)
    /\ UNCHANGED <<T, phase>>

----------------------------------------------------------------------------
(* LeVec::get *)

\* a bounds test that lets index == len through
get_inclusive(index) ==
    IF index <= len THEN Some(ReadAt(ptr, index)) ELSE None

get(index) ==
    IF index < len THEN Some(ReadAt(ptr, index)) ELSE None

Get(index) ==
    /\ phase = "live"
    /\ result' = Res("get", index, get(index))
    /\ trace' = <<>>
    /\ UNCHANGED <<T, ptr, len, cap, heap, nextBlock, nextVal, phase>>
    /\ NoteNothing

----------------------------------------------------------------------------
(* Index<usize> for LeVec *)

\* an index operator that skips the bounds test of get
index_unchecked(i) == Some(ReadAt(ptr, i))

\* self.get(index).expect("index out of bounds")
index(i) ==
    IF get(i).kind = "some" THEN get(i) ELSE Panic("index out of bounds")

\* the positions of the block the lookup dereferences
IndexReads(i) ==
    IF index(i).kind = "some" THEN <<EvRead(ptr, i, index(i).val)>> ELSE <<>>

Index(i) ==
    /\ phase = "live"
    /\ result' = Res("index", i, index(i))
    /\ trace' = IndexReads(i)
    /\ UNCHANGED <<T, ptr, len, cap, heap, nextBlock, nextVal, phase>>
    /\ NoteNothing

----------------------------------------------------------------------------
(* IntoIterator for &LeVec *)

\* a slice over the whole block
into_iter_cap == [k \in 1 .. cap |-> ReadAt(ptr, k - 1)]

\* std::slice::from_raw_parts(self.ptr.as_ptr(), self.len).iter(): the
\* elements the iterator yields, in its order
into_iter == [k \in 1 .. len |-> ReadAt(ptr, k - 1)]

IntoIter ==
    /\ phase = "live"
    /\ result' = [op |-> "into_iter", arg |-> 0, kind |-> "iter", val |-> into_iter, msg |-> ""]
    /\ trace' = <<>>
    /\ UNCHANGED <<T, ptr, len, cap, heap, nextBlock, nextVal, phase>>
    /\ NoteNothing

----------------------------------------------------------------------------
(* LeVec::pop *)

\* a pop that reads the slot before it decrements len
pop_readFirst ==
    IF len > 0
    THEN /\ result' = Res("pop", 0, Some(ReadAt(ptr, len)))
         /\ len' = len - 1
         /\ UNCHANGED <<ptr, cap, heap>>
    ELSE /\ result' = Res("pop", 0, None)
         /\ UNCHANGED <<ptr, len, cap, heap>>

\* a pop that does not test for the empty container (len wraps around)
pop_unguarded ==
    /\ len' = (len - 1) % (USIZE_MAX + 1)
    /\ result' = Res("pop", 0, Some(ReadAt(ptr, len')))
    /\ UNCHANGED <<ptr, cap, heap>>

pop ==
    IF len > 0
    THEN /\ len' = len - 1
         /\ result' = Res("pop", 0, Some(ReadAt(ptr, len')))
         /\ UNCHANGED <<ptr, cap, heap>>
    ELSE /\ result' = Res("pop", 0, None)
         /\ UNCHANGED <<ptr, len, cap, heap>>

\* the run has not used up its removals
MayRemove == len > 0 => Len(pushed) - Len(ref) < MaxRemovals

Pop ==
    /\ phase = "live"
    /\ MayRemove
    /\ pop
    /\ trace' = <<>>
    /\ NoteRemoved(result', TRUE)
    /\ UNCHANGED <<T, nextBlock, nextVal, phase>>

----------------------------------------------------------------------------
(* Iterator for LeVec: next *)

\* a consuming iteration that reads from the front
next_front ==
    IF len > 0
    THEN /\ len' = len - 1
         /\ result' = Res("next", 0, Some(ReadAt(ptr, 0)))
         /\ UNCHANGED <<ptr, cap, heap>>
    ELSE /\ result' = Res("next", 0, None)
         /\ UNCHANGED <<ptr, len, cap, heap>>

next ==
    IF len > 0
    THEN /\ len' = len - 1
         /\ result' = Res("next", 0, Some(ReadAt(ptr, len')))
         /\ UNCHANGED <<ptr, cap, heap>>
    ELSE /\ result' = Res("next", 0, None)
         /\ UNCHANGED <<ptr, len, cap, heap>>

NextItem ==
    /\ phase = "live"
    /\ MayRemove
    /\ next
    /\ trace' = <<>>
    /\ NoteRemoved(result', FALSE)
    /\ UNCHANGED <<T, nextBlock, nextVal, phase>>

----------------------------------------------------------------------------
(* Drop for LeVec *)

\* a teardown loop over the whole block
DropRange_cap == 0 .. (cap - 1)

\* for i in 0..self.len
DropRange == 0 .. (len - 1)

\* a teardown loop that runs from the last element down
DropEvents_reversed ==
    [k \in 1 .. Cardinality(DropRange) |->
        EvDropInPlace(ptr, len - k, ReadAt(ptr, len - k))]

\* the drop_in_place calls, in the order of the loop
DropEvents ==
    [k \in 1 .. Cardinality(DropRange) |-> EvDropInPlace(ptr, k - 1, ReadAt(ptr, k - 1))]

\* a release that describes the block by its live elements
DeallocEvents_len == <<EvDealloc(ptr, T.size * len)>>

\* Layout::array::<T>(self.cap), then dealloc(self.ptr, layout): called
\* whatever self.cap is
DeallocEvents == <<EvDealloc(ptr, T.size * cap)>>

\* dealloc of a block the allocator handed out releases it; dealloc of the
\* dangling pointer is no block's release
DeallocHeap(events) ==
    IF Len(events) > 0 /\ ptr \in Blocks
    THEN [heap EXCEPT ![ptr] = [@ EXCEPT !.rel = @ + 1, !.slots = <<>>]]
    ELSE heap

drop ==
    /\ destructed' =
          [v \in Bits |->
              destructed[v] + Cardinality({i \in DropRange : ReadAt(ptr, i) = v})]
    /\ trace' = DropEvents \o DeallocEvents
    /\ heap' = DeallocHeap(DeallocEvents)
    /\ result' = Res("drop", 0, Unit)
    \* free() of a pointer malloc never returned: the process goes on, or
    \* the allocator aborts it
    /\ phase' \in IF Len(DeallocEvents) > 0 /\ ptr \notin Blocks
                  THEN {"dropped", "aborted"} ELSE {"dropped"}

Drop ==
    /\ phase = "live"
    /\ drop
    /\ UNCHANGED <<T, ptr, len, cap, nextBlock, nextVal,
                   handed, pushed, ref, story, popped, nPops, capPushed>>

----------------------------------------------------------------------------
(* The program *)

\* the indexes the callers try: inside the length, at it, and beyond the capacity
Indexes == 0 .. (cap + 1)

Next ==
    \/ Push
    \/ Pop
    \/ NextItem
    \/ \E i \in Indexes : Get(i)
    \/ \E i \in Indexes : Index(i)
    \/ IntoIter
    \/ Drop

Spec == Init /\ [][Next]_vars

----------------------------------------------------------------------------
(* The size computation of a push into a full container, on its own *)

\* element types for the size computation: size is a multiple of align
OverflowTypes ==
    { [size |-> 1,    align |-> 1],
      [size |-> 2,    align |-> 2],
      [size |-> 48,   align |-> 16],
      [size |-> 4096, align |-> 1] }

\* capacities on both sides of every limit of the computation (2 * cap
\* against usize::MAX, size * 2 * cap against usize::MAX and isize::MAX)
OverflowCaps ==
    { 1, 3, 4, 5, 7, 8, 340, 341, 342, 682, 683, 8191, 8192,
      16383, 16384, 21845, 21846, 32767, 32768, 40000, 65535 }

\* a full container of cap elements of type T: the inputs of the
\* computation are self.cap, size_of::<T>() and align_of::<T>(); the
\* elements' values and the history take no part in it
InitOverflow ==
    /\ T \in OverflowTypes
    /\ cap \in OverflowCaps
    /\ len = cap
    /\ ptr = 1
    /\ heap = [b \in Blocks |->
                 IF b = 1 THEN [size |-> cap * T.size, rel |-> 0, slots |-> Uninit(cap)]
                 ELSE NoBlock]
    /\ nextBlock = 2
    /\ nextVal = MaxVals
    /\ phase = "live"
    /\ result = Res("new", 0, Unit)
    /\ trace = <<>>
    /\ handed = [v \in Bits |-> 0]
    /\ destructed = [v \in Bits |-> 0]
    /\ pushed = <<>>
    /\ ref = <<>>
    /\ story = "other"
    /\ popped = <<>>
    /\ nPops = 0
    /\ capPushed = 0

SpecOverflow == InitOverflow /\ [][Push]_vars

----------------------------------------------------------------------------
(* Claims *)

AllocatorCalls(events) == {k \in DOMAIN events : events[k].ev \in AllocatorEvents}

\* C1: once the container has been torn down, every block the allocator
\* handed out has been released exactly once (none leaked, none released twice).
C1_EveryBlockReleasedOnce ==
    phase = "dropped" =>
        \A b \in Blocks : heap[b].size > 0 => heap[b].rel = 1

\* C2: the teardown of a container whose capacity is 0 destructs no element
\* and makes no dealloc call.
C2_EmptyTeardownReleasesNothing ==
    (result.op = "drop" /\ cap = 0) =>
        \A k \in DOMAIN trace : trace[k].ev \notin {"dealloc", "drop_in_place"}

\* C3: in every state reached by push, pop and next, len <= cap, and cap = 0
\* exactly when the container owns no block.
C3_LenCapBlock ==
    phase = "live" =>
        /\ len <= cap
        /\ (cap = 0) <=> ~OwnsBlock

C3_Witness ==
    /\ phase = "live"
    /\ cap = 2 * INITIAL_CAP
    /\ len = cap
    /\ OwnsBlock
    /\ Len(pushed) > Len(ref)

\* C4: a push called with len < cap makes no allocator call, leaves cap and
\* the owned block as they are, writes the value at position len and adds
\* exactly 1 to len.  (Stated of the pushes that return: a push that
\* panics is left out.)
C4_RoomPushIsFastPath ==
    [][(Push /\ len < cap /\ result'.kind = "unit") =>
          /\ AllocatorCalls(trace') = {}
          /\ cap' = cap
          /\ ptr' = ptr
          /\ len' = len + 1
          /\ Slot(heap', ptr', len) = result'.arg
          /\ \A b \in Blocks : heap'[b].size = heap[b].size /\ heap'[b].rel = heap[b].rel
      ]_vars

\* C5: every value a push stored is disposed of exactly once over the
\* lifetime: handed to the caller once by pop / next, or destructed once by
\* the teardown; never both, never twice, and after the teardown never neither.
C5_EveryValueDisposedOnce ==
    /\ \A v \in Values : handed[v] + destructed[v] <= 1
    /\ handed[0] = 0 /\ destructed[0] = 0
    /\ \A k \in DOMAIN pushed :
          /\ phase = "live" => destructed[pushed[k]] = 0
          /\ phase # "live" => handed[pushed[k]] + destructed[pushed[k]] = 1
    /\ \A v \in Values :
          (\A k \in DOMAIN pushed : pushed[k] # v) => handed[v] + destructed[v] = 0

C5_Witness ==
    /\ phase = "dropped"
    /\ Len(pushed) > INITIAL_CAP
    /\ \E v \in Values : handed[v] = 1
    /\ \E v \in Values : destructed[v] = 1
    /\ \E k \in DOMAIN trace : trace[k].ev = "drop_in_place"

\* the smallest capacity of the form 4 * 2^k that holds n elements
GrowthLaw(n) ==
    CHOOSE c \in {INITIAL_CAP * 2^k : k \in 0 .. n} :
        /\ c >= n
        /\ \A d \in {INITIAL_CAP * 2^k : k \in 0 .. n} : d >= n => c <= d

\* C6: after N >= 1 pushes in a row on a new container, len = N and cap is
\* the smallest 4 * 2^k that is >= N.
C6_GrowthLaw ==
    (phase = "live" /\ story = "pushing" /\ Len(pushed) >= 1) =>
        /\ len = Len(pushed)
        /\ cap = GrowthLaw(Len(pushed))

C6_Witness ==
    /\ phase = "live"
    /\ story = "pushing"
    /\ Len(pushed) = 2 * INITIAL_CAP + 1
    /\ len = 2 * INITIAL_CAP + 1
    /\ cap = 4 * INITIAL_CAP

\* the realloc call of the last operation returned null
ReallocFailed(events) ==
    \E k \in DOMAIN events : events[k].ev = "realloc" /\ events[k].ret = 0

\* C7: when the allocator fails the realloc of a push into a full container,
\* the push ends in a panic and ptr, len, cap, the block and every element
\* are what they were.
C7_FailedGrowthChangesNothing ==
    [][(result'.op = "push" /\ ReallocFailed(trace')) =>
          /\ len = cap /\ cap > 0
          /\ result'.kind = "panic"
          /\ result'.msg = "allocation failed"
          /\ ptr' = ptr /\ len' = len /\ cap' = cap
          /\ heap' = heap
          /\ \A i \in 0 .. (len - 1) : Slot(heap', ptr', i) = ref[i + 1]
      ]_vars

C7_Witness ==
    /\ result.op = "push"
    /\ ReallocFailed(trace)
    /\ result.kind = "panic"
    /\ len = cap /\ cap = 2 * INITIAL_CAP
    /\ OwnsBlock

\* C8: N distinct values pushed on a new container, then N pops: the pops
\* return the values in reverse order, len ends at 0, one more pop returns
\* nothing, and cap is what the N pushes left.
C8_PushThenPopReverses ==
    (phase = "live" /\ story = "popping") =>
        LET N == Len(pushed)
            k == IF nPops < N THEN nPops ELSE N
        IN  /\ \A i \in DOMAIN pushed : \A j \in DOMAIN pushed :
                  i # j => pushed[i] # pushed[j]
            /\ popped = [i \in 1 .. k |-> pushed[N + 1 - i]]
            /\ len = N - k
            /\ cap = capPushed
            /\ cap = IF N = 0 THEN 0 ELSE GrowthLaw(N)
            /\ (nPops > N /\ result.op = "pop") => result.kind = "none"

C8_Witness ==
    /\ phase = "live"
    /\ story = "popping"
    /\ Len(pushed) = INITIAL_CAP + 1
    /\ nPops = Len(pushed) + 1
    /\ Len(popped) = Len(pushed)
    /\ result.op = "pop" /\ result.kind = "none"
    /\ len = 0 /\ cap = 2 * INITIAL_CAP

\* C9: get(i) returns the value at position i when i < len and nothing when
\* i >= len, and changes neither len, cap, the block nor any element.
C9_GetInBounds ==
    [][(result'.op = "get" /\ \E i \in Indexes : Get(i)) =>
          /\ result'.arg < len =>
                /\ result'.kind = "some"
                /\ result'.val = ref[result'.arg + 1]
                /\ result'.val = ReadAt(ptr, result'.arg)
          /\ result'.arg >= len => result'.kind = "none"
          /\ UNCHANGED <<ptr, len, cap, heap>>
      ]_vars

\* get(len) just after a removal: the slot still holds the removed value's bytes
C9_Witness ==
    /\ result.op = "get"
    /\ result.arg = len
    /\ result.kind = "none"
    /\ ReadAt(ptr, len) # 0
    /\ len > 0

\* C10: pop changes neither cap, the block, nor the values that stay live;
\* with len >= 1 it returns the value at position len - 1 and takes exactly 1
\* off len; with len = 0 it returns nothing and changes nothing.
C10_PopFrame ==
    [][(result'.op = "pop" /\ Pop) =>
          /\ cap' = cap /\ ptr' = ptr /\ heap' = heap
          /\ \A i \in 0 .. (len' - 1) : Slot(heap', ptr', i) = Slot(heap, ptr, i)
          /\ len >= 1 =>
                /\ result'.kind = "some"
                /\ result'.val = Slot(heap, ptr, len - 1)
                /\ result'.val = ref[Len(ref)]
                /\ len' = len - 1
          /\ len = 0 => (result'.kind = "none" /\ len' = len)
      ]_vars

C10_Witness ==
    /\ result.op = "pop"
    /\ result.kind = "some"
    /\ len >= INITIAL_CAP
    /\ cap = 2 * INITIAL_CAP
    /\ result.val = ReadAt(ptr, len)

\* what a removal can return here: nothing, or the last value of the
\* reference stack
Removals == {None} \cup (IF Len(ref) > 0 THEN {Some(ref[Len(ref)])} ELSE {})

\* the step leaves the container with length l and returns r, the block untouched
Yields(l, r) ==
    /\ len' = l
    /\ result'.kind = r.kind /\ result'.val = r.val
    /\ ptr' = ptr /\ cap' = cap /\ heap' = heap

\* C11: in every state next() returns what pop() would return and leaves the
\* state pop() would leave: the last value of the container (last inserted
\* first), and, once the container is empty, nothing, with len staying 0.
C11_NextIsPop ==
    phase = "live" =>
        /\ \A l \in {len, len - 1} : \A r \in Removals :
              (ENABLED (next /\ Yields(l, r))) <=> (ENABLED (pop /\ Yields(l, r)))
        /\ Len(ref) > 0 => ENABLED (next /\ Yields(Len(ref) - 1, Some(ref[Len(ref)])))
        /\ Len(ref) = 0 => ENABLED (next /\ Yields(0, None))

\* a container drained by next alone, asked once more
C11_Witness ==
    /\ phase = "live"
    /\ result.op = "next" /\ result.kind = "none"
    /\ len = 0
    /\ Len(pushed) = INITIAL_CAP + 1
    /\ \A k \in DOMAIN pushed : handed[pushed[k]] = 1
    /\ story = "other"

\* C12: borrowing iteration yields exactly the values at positions
\* 0 .. len - 1, in that order, and changes neither len, cap, the block nor
\* any element.
C12_BorrowingIteration ==
    [][(result'.op = "into_iter" /\ IntoIter) =>
          /\ Len(result'.val) = len
          /\ result'.val = ref
          /\ \A k \in 1 .. len : result'.val[k] = Slot(heap, ptr, k - 1)
          /\ UNCHANGED <<ptr, len, cap, heap>>
      ]_vars

\* the iteration over five values left of seven
C12_Witness ==
    /\ result.op = "into_iter"
    /\ Len(pushed) = 2 * INITIAL_CAP - 1
    /\ len = INITIAL_CAP + 1
    /\ cap = 2 * INITIAL_CAP
    /\ Len(result.val) = len
    /\ ReadAt(ptr, len) # 0

\* C13: push of a value whose type has size 0 panics on the precondition
\* in every state, before any allocator call, with len, cap and the block
\* left as they were.
C13_ZeroSizedRejected ==
    [][(Push /\ T.size = 0) =>
          /\ result'.kind = "panic"
          /\ result'.msg = "size of T must be greater than 0"
          /\ trace' = <<>>
          /\ UNCHANGED <<ptr, len, cap, heap>>
      ]_vars

C13_Witness ==
    /\ T.size = 0
    /\ result.op = "push"
    /\ result.kind = "panic"
    /\ result.msg = "size of T must be greater than 0"
    /\ Outstanding = {}

\* C14: the index operator returns the element get(i) returns when i < len;
\* for i >= len it panics with an out-of-bounds error, reads no position of
\* the block and changes nothing.
C14_IndexChecked ==
    [][(result'.op = "index" /\ \E i \in Indexes : Index(i)) =>
          /\ result'.arg < len =>
                /\ result'.kind = "some"
                /\ result'.val = get(result'.arg).val
                /\ result'.val = ref[result'.arg + 1]
          /\ result'.arg >= len =>
                /\ result'.kind = "panic"
                /\ result'.msg = "index out of bounds"
                /\ \A k \in DOMAIN trace' : trace'[k].ev # "read"
          /\ UNCHANGED <<ptr, len, cap, heap>>
      ]_vars

\* index(len) next to a slot that still holds a removed value's bytes
C14_Witness ==
    /\ result.op = "index"
    /\ result.arg = len
    /\ result.kind = "panic"
    /\ len > 0
    /\ ReadAt(ptr, len) # 0
    /\ trace = <<>>

\* C15: at every growth step the realloc call describes the block by the
\* layout it was obtained or last resized with (old cap * size) and asks for
\* 2 * old cap * size.
C15_ReallocOldLayout ==
    [][\A k \in DOMAIN trace' :
          (result'.op = "push" /\ trace'[k].ev = "realloc") =>
              /\ trace'[k].ptr = ptr
              /\ trace'[k].layout = heap[ptr].size
              /\ trace'[k].layout = cap * T.size
              /\ trace'[k].new = 2 * cap * T.size
      ]_vars

\* C16: when the teardown releases a block (cap > 0), the layout it hands
\* to dealloc (cap * size) is the layout the owned block was obtained or
\* last resized with.
C16_DeallocLayout ==
    (phase = "dropped" /\ cap > 0) =>
        /\ Cardinality({k \in DOMAIN trace : trace[k].ev = "dealloc"}) = 1
        /\ \A k \in DOMAIN trace : trace[k].ev = "dealloc" =>
              /\ trace[k].ptr = ptr
              /\ trace[k].layout = heap[ptr].size
              /\ trace[k].layout = cap * T.size

\* a teardown after a growth step and removals: the block holds more than
\* the live elements
C16_Witness ==
    /\ phase = "dropped"
    /\ cap = 2 * INITIAL_CAP
    /\ len < INITIAL_CAP
    /\ heap[ptr].rel = 1
    /\ Len(pushed) > Len(ref)

\* C17: the teardown of a container with N live elements and cap > 0
\* destructs the elements at positions 0 .. N-1 in ascending order, none
\* beyond, and calls dealloc once, after the last destruction.
C17_TeardownOrder ==
    (phase = "dropped" /\ cap > 0) =>
        /\ Len(trace) = len + 1
        /\ \A k \in 1 .. len :
              /\ trace[k].ev = "drop_in_place"
              /\ trace[k].pos = k - 1
              /\ trace[k].val = ref[k]
        /\ trace[len + 1].ev = "dealloc"

C17_Witness ==
    /\ phase = "dropped"
    /\ cap = 2 * INITIAL_CAP
    /\ len = INITIAL_CAP + 1
    /\ Len(pushed) > len
    /\ trace[len].ev = "drop_in_place"
    /\ trace[len + 1].ev = "dealloc"

\* isize::MAX rounded down to a multiple of the element's alignment
RoundedDownMax == ISIZE_MAX_SIZE - (ISIZE_MAX_SIZE % T.align)

\* 2 * cap overflows usize, or size * 2 * cap does, or it exceeds RoundedDownMax
SizeOverflows ==
    \/ 2 * cap > USIZE_MAX
    \/ T.size * (2 * cap) > USIZE_MAX
    \/ T.size * (2 * cap) > RoundedDownMax

\* C18: with machine integers, a push into a full container panics with
\* "capacity overflow", without an allocator call and without a change of
\* the container, exactly when 2 * cap overflows, size * new_cap overflows,
\* or that byte size exceeds isize::MAX rounded down to a multiple of the
\* alignment; otherwise realloc is asked for exactly that byte size.
C18_CapacityOverflow ==
    [][(Push /\ len = cap /\ cap > 0 /\ T.size > 0) =>
          IF SizeOverflows
          THEN /\ result'.kind = "panic"
               /\ result'.msg = "capacity overflow"
               /\ trace' = <<>>
               /\ UNCHANGED <<ptr, len, cap, heap>>
          ELSE /\ Len(trace') = 1
               /\ trace'[1].ev = "realloc"
               /\ trace'[1].new = T.size * (2 * cap)
               /\ result'.msg # "capacity overflow"
      ]_vars

\* the byte size fits usize and not isize
C18_Witness ==
    /\ result.op = "push"
    /\ result.msg = "capacity overflow"
    /\ len = cap
    /\ 2 * cap <= USIZE_MAX
    /\ T.size * (2 * cap) <= USIZE_MAX
    /\ T.size * (2 * cap) > RoundedDownMax

\* C19: capacity never decreases: after every step of push, pop and next
\* it is at least what it was before the step.
C19_CapacityNeverDecreases ==
    [][cap' >= cap]_vars

\* C20: the container refines a stack: after any successful pushes, pops
\* and nexts, len is the length of the reference sequence (append on push,
\* remove last on pop / next) and position i holds its i-th item.
C20_RefinesStack ==
    phase = "live" =>
        /\ len = Len(ref)
        /\ \A i \in 0 .. (len - 1) : ReadAt(ptr, i) = ref[i + 1]

\* a push after the container was emptied, then growth
C20_Witness ==
    /\ phase = "live"
    /\ result.op = "push" /\ result.kind = "unit"
    /\ len = INITIAL_CAP + 1
    /\ Len(pushed) > len
    /\ ref[1] # pushed[1]
    /\ \E k \in DOMAIN trace : trace[k].ev = "realloc" /\ trace[k].ret # trace[k].ptr

====
